---- MODULE Spec2Model ----
(***************************************************************************)
(* A model of the parser-combinator library of src/src/data-parser.ts.     *)
(*                                                                         *)
(* JavaScript values are tagged records, a parser is a record naming the   *)
(* combinator that built it and its arguments, and Apply(p, v, ctx) is the *)
(* call p(v, ctx).  A call either returns a value or throws an Error; the  *)
(* outcome also lists, in order, the calls the parser itself made.         *)
(***************************************************************************)
EXTENDS Integers, Sequences, FiniteSets, TLC

VARIABLES parser, input, ctx, result

vars == <<parser, input, ctx, result>>

(***************************************************************************)
(* Bounds of the model.                                                    *)
(***************************************************************************)
MaxCtx == 2      \* fragments pushed onto the caller's context
MaxAlt == 3      \* alternatives given to alt
MaxArr == 2      \* elements of an input array
MaxDepth == 2    \* structural descents around a leaf parser

(***************************************************************************)
(* JavaScript values.                                                      *)
(***************************************************************************)
Undefined == [t |-> "undefined"]
Null == [t |-> "null"]
Str(s) == [t |-> "string", s |-> s]
Num(n) == [t |-> "number", n |-> n]
NaN == [t |-> "number", nan |-> TRUE]
Bool(b) == [t |-> "boolean", b |-> b]
Arr(items) == [t |-> "array", items |-> items]
Obj(fields) == [t |-> "object", fields |-> fields]
Fn(name) == [t |-> "function", name |-> name]
MomentObj(valid, inst) == [t |-> "moment", valid |-> valid, inst |-> inst]

\* typeof v
TypeOf(v) ==
  CASE v.t = "undefined" -> "undefined"
    [] v.t = "string" -> "string"
    [] v.t = "number" -> "number"
    [] v.t = "boolean" -> "boolean"
    [] v.t = "function" -> "function"
    [] OTHER -> "object"

\* Array.isArray(v)
IsArray(v) == v.t = "array"

\* The source text of the closures the tests and the README pass in (the
\* template literal of the test is written with + here).
FnSource(name) ==
  CASE name = "fooMsg" -> "(v) => 'foo ' + v"
    [] name = "seven" -> "() => 7"
    [] name = "parseIntOf" -> "(v) => Number.parseInt(v)"
    [] OTHER -> "function " \o name \o "() { [native code] }"

RECURSIVE JSString(_)
RECURSIVE JoinFrom(_, _)

\* Array.prototype.join(","): null and undefined elements become "".
JoinFrom(items, i) ==
  IF i > Len(items) THEN ""
  ELSE (IF i > 1 THEN "," ELSE "")
       \o (IF items[i].t \in {"undefined", "null"} THEN "" ELSE JSString(items[i]))
       \o JoinFrom(items, i + 1)

\* String(v) and `${v}`
JSString(v) ==
  CASE v.t = "undefined" -> "undefined"
    [] v.t = "null" -> "null"
    [] v.t = "string" -> v.s
    [] v.t = "number" -> (IF "n" \in DOMAIN v THEN ToString(v.n) ELSE "NaN")
    [] v.t = "boolean" -> (IF v.b THEN "true" ELSE "false")
    [] v.t = "array" -> JoinFrom(v.items, 1)
    [] v.t = "object" -> "[object Object]"
    [] v.t = "function" -> FnSource(v.name)
    [] v.t = "moment" -> (IF v.valid THEN "moment " \o ToString(v.inst) ELSE "Invalid date")

\* Object.prototype.hasOwnProperty.call(v, key)
HasOwnProperty(v, key) ==
  /\ v.t = "object"
  /\ \E i \in 1..Len(v.fields) : v.fields[i].key = key

\* v[key] for an own property
GetProp(v, key) ==
  LET i == CHOOSE j \in 1..Len(v.fields) : v.fields[j].key = key
  IN  v.fields[i].val

\* obj[key] = u
SetProp(obj, key, u) ==
  IF HasOwnProperty(obj, key)
  THEN Obj([i \in 1..Len(obj.fields) |->
              IF obj.fields[i].key = key THEN [key |-> key, val |-> u]
              ELSE obj.fields[i]])
  ELSE Obj(Append(obj.fields, [key |-> key, val |-> u]))

(***************************************************************************)
(* Context and errors.                                                     *)
(***************************************************************************)
newParsingCtx == <<>>

\* A push that appends the fragment instead of prepending it.
pushToCtx_append(c, msg) == c \o <<msg>>

pushToCtx(c, msg) == <<msg>> \o c

RECURSIVE InSuffix(_, _)
\* ctx().forEach((x) => { s += ` in ${x}` })
InSuffix(c, i) ==
  IF i > Len(c) THEN "" ELSE " in " \o c[i] \o InSuffix(c, i + 1)

\* new Error(s): msg is a JavaScript value, coerced to a string
error(msg, c) == [message |-> JSString(msg) \o InSuffix(c, 1)]

(***************************************************************************)
(* Outcomes of a call.                                                     *)
(***************************************************************************)
Return(val, calls) == [ok |-> TRUE, val |-> val, calls |-> calls]
Throw(err, calls) == [ok |-> FALSE, err |-> err, calls |-> calls]
Call(p, v, c) == [callee |-> p, v |-> v, ctx |-> c]
CallFn(f) == [callee |-> f]

(***************************************************************************)
(* The two library calls the parsers make.  Instants are whole hours since *)
(* 1970-01-01T00:00:00Z.                                                   *)
(***************************************************************************)
\* moment(s) for a string s: a Moment, invalid when s is no date-time.
\* moment() reports an unparseable string by an invalid Moment, not by an
\* exception.
moment(s) ==
  CASE s = "2023-01-01T12:00:00.000Z" -> MomentObj(TRUE, 464604)
    [] s = "1899-12-30T01:00:00.000Z" -> MomentObj(TRUE, -613655)
    [] s = "1899-12-30T00:00:00.000Z" -> MomentObj(TRUE, -613656)
    [] s = "1800-01-01T00:00:00.000Z" -> MomentObj(TRUE, -1490184)
    [] OTHER -> MomentObj(FALSE, 0)

\* d.diff(e) > 0; the difference with an invalid Moment is NaN, and NaN > 0
\* is false.
DiffIsPositive(d, e) == d.valid /\ e.valid /\ d.inst - e.inst > 0

\* moment(s) or d.diff(...) throws: neither does for a string argument.
MomentThrows(s) == FALSE

\* new URL(s) does not throw
URLConstructs(s) == s \in {"http://www.example.com"}

(***************************************************************************)
(* Parsers as values: which combinator built the parser, and from what.    *)
(***************************************************************************)
P_string == [kind |-> "string"]
P_boolean == [kind |-> "boolean"]
P_number == [kind |-> "number"]
P_momentOfString == [kind |-> "momentOfString"]
P_compose(a, b) == [kind |-> "compose", a |-> a, b |-> b]
P_fail(msg) == [kind |-> "fail", msg |-> msg]
P_failWith(f) == [kind |-> "failWith", f |-> f]
P_postCondition(p, pred) == [kind |-> "postCondition", parser |-> p, pred |-> pred]
P_object(props) == [kind |-> "object", props |-> props]
P_array(item) == [kind |-> "array", item |-> item]
P_optional(p) == [kind |-> "optional", parser |-> p]
P_nullable(p) == [kind |-> "nullable", parser |-> p]
P_withDefault(p, def) == [kind |-> "withDefault", parser |-> p, def |-> def]
P_alt(parsers) == [kind |-> "alt", parsers |-> parsers]
P_lift(f) == [kind |-> "lift", f |-> f]
P_dateTime == P_compose(P_string, P_momentOfString)
P_url == P_postCondition(P_string, Fn("urlPred"))

Digits == <<"0", "1", "2", "3", "4", "5", "6", "7", "8", "9">>
IsDigit(ch) == \E d \in 1..10 : Digits[d] = ch
DigitValue(ch) == (CHOOSE d \in 1..10 : Digits[d] = ch) - 1

RECURSIVE ParseDigits(_, _, _)
\* The value of the run of digits of s that starts at position i, after acc.
ParseDigits(s, i, acc) ==
  IF i <= Len(s) /\ IsDigit(SubSeq(s, i, i))
  THEN ParseDigits(s, i + 1, acc * 10 + DigitValue(SubSeq(s, i, i)))
  ELSE acc

RECURSIVE SkipSpaces(_, _)
SkipSpaces(s, i) ==
  IF i <= Len(s) /\ SubSeq(s, i, i) = " " THEN SkipSpaces(s, i + 1) ELSE i

\* Number.parseInt(s) in base ten: leading spaces, a sign, then the longest
\* run of digits; NaN when there is no digit.
ParseInt(s) ==
  LET i == SkipSpaces(s, 1)
      signed == i <= Len(s) /\ SubSeq(s, i, i) \in {"-", "+"}
      j == IF signed THEN i + 1 ELSE i
  IN  IF j <= Len(s) /\ IsDigit(SubSeq(s, j, j))
      THEN Num((IF signed /\ SubSeq(s, i, i) = "-" THEN -1 ELSE 1) * ParseDigits(s, j, 0))
      ELSE NaN

\* A call f(v) of one of the closures handed to the library.
CallClosure(f, v) ==
  CASE f.name = "fooMsg" -> Str("foo " \o JSString(v))
    [] f.name = "seven" -> Num(7)
    [] f.name = "parseIntOf" -> ParseInt(JSString(v))
    [] f.name = "String" -> Str(JSString(v))
    [] f.name = "urlPred" ->
         IF URLConstructs(JSString(v)) THEN Undefined
         ELSE Str("Invalid URL \"" \o JSString(v) \o "\"")

RECURSIVE Apply(_, _, _)

(***************************************************************************)
(* Primitive parsers.                                                      *)
(***************************************************************************)
string(v, c) ==
  IF TypeOf(v) = "string" THEN Return(v, <<>>)
  ELSE Throw(error(Str("Value " \o JSString(v) \o " is not a string"), c), <<>>)

\* A boolean whose message was copied from string.
boolean_stringMessage(v, c) ==
  IF TypeOf(v) = "boolean" THEN Return(v, <<>>)
  ELSE Throw(error(Str("Value " \o JSString(v) \o " is not a string"), c), <<>>)

boolean(v, c) ==
  IF TypeOf(v) = "boolean" THEN Return(v, <<>>)
  ELSE Throw(error(Str("Value " \o JSString(v) \o " is not a boolean"), c), <<>>)

number(v, c) ==
  IF TypeOf(v) = "number" THEN Return(v, <<>>)
  ELSE Throw(error(Str("Value " \o JSString(v) \o " is not a number"), c), <<>>)

fail(msg, v, c) == Throw(error(msg, c), <<>>)

failWith(f, v, c) == Throw(error(CallClosure(f, v), c), <<CallFn(f)>>)

\* A compose that runs b first and feeds its output to a.
compose_bFirst(a, b, v, c) ==
  LET rb == Apply(b, v, c)
      ra == Apply(a, rb.val, c)
  IN  IF ~rb.ok THEN Throw(rb.err, <<Call(b, v, c)>>)
      ELSE IF ~ra.ok THEN Throw(ra.err, <<Call(b, v, c), Call(a, rb.val, c)>>)
      ELSE Return(ra.val, <<Call(b, v, c), Call(a, rb.val, c)>>)

compose(a, b, v, c) ==
  LET ra == Apply(a, v, c)
      rb == Apply(b, ra.val, c)
  IN  IF ~ra.ok THEN Throw(ra.err, <<Call(a, v, c)>>)
      ELSE IF ~rb.ok THEN Throw(rb.err, <<Call(a, v, c), Call(b, ra.val, c)>>)
      ELSE Return(rb.val, <<Call(a, v, c), Call(b, ra.val, c)>>)

\* The second stage of dateTime.  The catch block is the only throw; when
\* the difference is not positive the function ends without a return, and
\* so returns undefined.
momentOfString(v, c) ==
  LET d == moment(JSString(v))
  IN  IF MomentThrows(JSString(v))
      THEN Throw(error(Str("Value " \o JSString(v) \o " is not a date and time"), c), <<>>)
      ELSE IF DiffIsPositive(d, moment("1899-12-30T00:00:00.000Z")) THEN Return(d, <<>>)
      ELSE Return(Undefined, <<>>)

\* A postCondition that reports the predicate's message before the parser's
\* own failure.
postCondition_predFirst(p, pred, v, c) ==
  LET r == Apply(p, v, c)
      msg == CallClosure(pred, IF r.ok THEN r.val ELSE v)
  IN  IF msg # Undefined THEN Throw(error(msg, c), <<Call(p, v, c), CallFn(pred)>>)
      ELSE IF ~r.ok THEN Throw(r.err, <<Call(p, v, c)>>)
      ELSE Return(r.val, <<Call(p, v, c), CallFn(pred)>>)

postCondition(p, pred, v, c) ==
  LET r == Apply(p, v, c)
      msg == CallClosure(pred, r.val)
  IN  IF ~r.ok THEN Throw(r.err, <<Call(p, v, c)>>)
      ELSE IF msg # Undefined THEN Throw(error(msg, c), <<Call(p, v, c), CallFn(pred)>>)
      ELSE Return(r.val, <<Call(p, v, c), CallFn(pred)>>)

isRecord(v) == TypeOf(v) = "object" /\ v # Null /\ ~IsArray(v)

(***************************************************************************)
(* Structural combinators.                                                 *)
(***************************************************************************)
RECURSIVE objectEntries_assignAll(_, _, _, _, _, _)
\* A loop that assigns every result, undefined included.
objectEntries_assignAll(props, i, v, c, obj, calls) ==
  IF i > Len(props) THEN Return(obj, calls)
  ELSE
    LET key == props[i].key
        ctx2 == pushToCtx(c, "object property " \o key)
        arg == IF HasOwnProperty(v, key) THEN GetProp(v, key) ELSE Undefined
        u == Apply(props[i].parser, arg, ctx2)
        calls2 == Append(calls, Call(props[i].parser, arg, ctx2))
    IN  IF ~u.ok THEN Throw(u.err, calls2)
        ELSE objectEntries_assignAll(props, i + 1, v, c, SetProp(obj, key, u.val), calls2)

RECURSIVE objectEntries(_, _, _, _, _, _)
\* Object.entries(props).forEach(...), from the i-th entry on; obj is the
\* record built so far.  An exception of a field parser leaves the loop.
objectEntries(props, i, v, c, obj, calls) ==
  IF i > Len(props) THEN Return(obj, calls)
  ELSE
    LET key == props[i].key
        ctx2 == pushToCtx(c, "object property " \o key)
        arg == IF HasOwnProperty(v, key) THEN GetProp(v, key) ELSE Undefined
        u == Apply(props[i].parser, arg, ctx2)
        calls2 == Append(calls, Call(props[i].parser, arg, ctx2))
    IN  IF ~u.ok THEN Throw(u.err, calls2)
        ELSE objectEntries(props, i + 1, v, c,
                           IF u.val # Undefined THEN SetProp(obj, key, u.val) ELSE obj,
                           calls2)

object(props, v, c) ==
  IF isRecord(v) THEN objectEntries(props, 1, v, c, Obj(<<>>), <<>>)
  ELSE Throw(error(Str("Value " \o JSString(v) \o " is not an object"), c), <<>>)

RECURSIVE arrayMap_oneBased(_, _, _, _, _, _)
\* A map that numbers the elements from one in the context.
arrayMap_oneBased(item, i, v, c, out, calls) ==
  IF i >= Len(v.items) THEN Return(Arr(out), calls)
  ELSE
    LET x == v.items[i + 1]
        ctx2 == pushToCtx(c, "array at index " \o ToString(i + 1))
        r == Apply(item, x, ctx2)
        calls2 == Append(calls, Call(item, x, ctx2))
    IN  IF ~r.ok THEN Throw(r.err, calls2)
        ELSE arrayMap_oneBased(item, i + 1, v, c, Append(out, r.val), calls2)

RECURSIVE arrayMap(_, _, _, _, _, _)
\* v.map((x, i) => ...), from the element of zero-based index i on; out is
\* the array built so far.  An exception of item leaves the map.
arrayMap(item, i, v, c, out, calls) ==
  IF i >= Len(v.items) THEN Return(Arr(out), calls)
  ELSE
    LET x == v.items[i + 1]
        ctx2 == pushToCtx(c, "array at index " \o ToString(i))
        r == Apply(item, x, ctx2)
        calls2 == Append(calls, Call(item, x, ctx2))
    IN  IF ~r.ok THEN Throw(r.err, calls2)
        ELSE arrayMap(item, i + 1, v, c, Append(out, r.val), calls2)

array(item, v, c) ==
  IF IsArray(v) THEN arrayMap(item, 0, v, c, <<>>, <<>>)
  ELSE Throw(error(Str("Value " \o JSString(v) \o " is not an array"), c), <<>>)

(***************************************************************************)
(* Optionality and alternation.                                            *)
(***************************************************************************)
optional(p, v, c) ==
  IF TypeOf(v) = "undefined" THEN Return(Undefined, <<>>)
  ELSE LET r == Apply(p, v, c)
       IN  [r EXCEPT !.calls = <<Call(p, v, c)>>]

nullable(p, v, c) ==
  IF v = Null THEN Return(Null, <<>>)
  ELSE LET r == Apply(p, v, c)
       IN  [r EXCEPT !.calls = <<Call(p, v, c)>>]

\* A withDefault that replaces undefined but not null.
withDefault_undefinedOnly(p, def, v, c) ==
  LET x == Apply(p, v, c)
  IN  IF ~x.ok THEN Throw(x.err, <<Call(p, v, c)>>)
      ELSE IF x.val = Undefined
      THEN IF def.t = "function"
           THEN Return(CallClosure(def, Undefined), <<Call(p, v, c), CallFn(def)>>)
           ELSE Return(def, <<Call(p, v, c)>>)
      ELSE Return(x.val, <<Call(p, v, c)>>)

withDefault(p, def, v, c) ==
  LET x == Apply(p, v, c)
  IN  IF ~x.ok THEN Throw(x.err, <<Call(p, v, c)>>)
      ELSE IF x.val = Null \/ x.val = Undefined
      THEN IF def.t = "function"
           THEN Return(CallClosure(def, Undefined), <<Call(p, v, c), CallFn(def)>>)
           ELSE Return(def, <<Call(p, v, c)>>)
      ELSE Return(x.val, <<Call(p, v, c)>>)

RECURSIVE altLoop(_, _, _, _, _, _)
RECURSIVE altLoop_keepFirst(_, _, _, _, _, _)
\* A loop that keeps the first exception caught instead of the last.
altLoop_keepFirst(parsers, i, v, c, err, calls) ==
  IF i > Len(parsers)
  THEN IF err # Undefined THEN Throw(err, calls)
       ELSE Throw(error(Str("Unexpected data"), c), calls)
  ELSE
    LET r == Apply(parsers[i], v, c)
        calls2 == Append(calls, Call(parsers[i], v, c))
    IN  IF r.ok THEN Return(r.val, calls2)
        ELSE altLoop_keepFirst(parsers, i + 1, v, c,
                               IF err # Undefined THEN err ELSE r.err, calls2)

\* for (const parser of parsers), from the i-th parser on; err is the last
\* exception caught, Undefined when there is none.
altLoop(parsers, i, v, c, err, calls) ==
  IF i > Len(parsers)
  THEN IF err # Undefined THEN Throw(err, calls)
       ELSE Throw(error(Str("Unexpected data"), c), calls)
  ELSE
    LET r == Apply(parsers[i], v, c)
        calls2 == Append(calls, Call(parsers[i], v, c))
    IN  IF r.ok THEN Return(r.val, calls2)
        ELSE altLoop(parsers, i + 1, v, c, r.err, calls2)

lift(f, v, c) == Return(CallClosure(f, v), <<CallFn(f)>>)

\* An alt that tries the parsers from the last to the first.
alt_reversed(parsers, v, c) ==
  altLoop([i \in 1..Len(parsers) |-> parsers[Len(parsers) + 1 - i]], 1, v, c, Undefined, <<>>)

alt(parsers, v, c) == altLoop(parsers, 1, v, c, Undefined, <<>>)

\* The call p(v, c).
Apply(p, v, c) ==
  CASE p.kind = "string" -> string(v, c)
    [] p.kind = "boolean" -> boolean(v, c)
    [] p.kind = "number" -> number(v, c)
    [] p.kind = "momentOfString" -> momentOfString(v, c)
    [] p.kind = "compose" -> compose(p.a, p.b, v, c)
    [] p.kind = "fail" -> fail(p.msg, v, c)
    [] p.kind = "failWith" -> failWith(p.f, v, c)
    [] p.kind = "postCondition" -> postCondition(p.parser, p.pred, v, c)
    [] p.kind = "object" -> object(p.props, v, c)
    [] p.kind = "array" -> array(p.item, v, c)
    [] p.kind = "optional" -> optional(p.parser, v, c)
    [] p.kind = "nullable" -> nullable(p.parser, v, c)
    [] p.kind = "withDefault" -> withDefault(p.parser, p.def, v, c)
    [] p.kind = "alt" -> alt(p.parsers, v, c)
    [] p.kind = "lift" -> lift(p.f, v, c)

runParser(p, v) == Apply(p, v, newParsingCtx)

(***************************************************************************)
(* The parsers and inputs the model runs.                                  *)
(***************************************************************************)
SeqsUpTo(S, n) == UNION {[1..k -> S] : k \in 0..n}

Scalars ==
  {Undefined, Null, Num(7), Num(27), NaN, Bool(TRUE), Bool(FALSE),
   Str("hello"), Str("()"), Str("http://www.example.com"),
   Str("2023-01-01T12:00:00.000Z"), Str("1899-12-30T01:00:00.000Z"),
   Str("1899-12-30T00:00:00.000Z"), Str("1800-01-01T00:00:00.000Z")}

LeafParsers ==
  {P_string, P_number, P_boolean, P_dateTime, P_url,
   P_fail(Str("foo")), P_fail(Fn("fooMsg")), P_failWith(Fn("fooMsg")),
   P_optional(P_number), P_nullable(P_number),
   P_withDefault(P_optional(P_number), Num(7)),
   P_withDefault(P_optional(P_number), Fn("seven")),
   P_withDefault(P_nullable(P_string), Str("none")),
   P_withDefault(P_boolean, Bool(FALSE)),
   P_withDefault(P_fail(Str("foo")), Num(7))}

LeafCases == LeafParsers \X (Scalars \cup {Arr(<<Num(1), Null, Str("x")>>), Obj(<<>>)})

AltBase == {P_string, P_number, P_optional(P_boolean), P_fail(Str("foo"))}
AltInputs == {Num(27), Str("x"), Bool(TRUE), Undefined}
AltCases == {P_alt(ps) : ps \in SeqsUpTo(AltBase, MaxAlt)} \X AltInputs

FieldBase == {P_string, P_optional(P_number), P_withDefault(P_boolean, Bool(FALSE))}
PropLists ==
  {<<>>}
  \cup {<<[key |-> k, parser |-> p]>> : k \in {"a", "b"}, p \in FieldBase}
  \cup {<<[key |-> k[1], parser |-> p], [key |-> k[2], parser |-> q]>> :
          k \in {<<"a", "b">>, <<"b", "a">>}, p \in FieldBase, q \in FieldBase}
Absent == [t |-> "absent"]
\* The input records: each of a, b, x is missing or has one of a few values.
Record(a, b, x) ==
  Obj(SelectSeq(<<[key |-> "a", val |-> a], [key |-> "b", val |-> b],
                  [key |-> "x", val |-> x]>>,
                LAMBDA f : f.val # Absent))
ObjectInputs ==
  {Record(a, b, x) : a \in {Absent, Str("hi"), Num(1)},
                     b \in {Absent, Num(1), Undefined, Bool(TRUE)},
                     x \in {Absent, Str("extra")}}
  \cup {Num(27), Null, Arr(<<>>)}
ObjectCases == {P_object(props) : props \in PropLists} \X ObjectInputs

ArrayInputs ==
  {Arr(items) : items \in SeqsUpTo({Num(1), Str("x"), Undefined}, MaxArr)}
  \cup {Num(27), Obj(<<>>)}
ArrayCases == {P_array(item) : item \in {P_number, P_string, P_optional(P_number)}} \X ArrayInputs

\* A leaf parser with an input it rejects, an input it accepts, and the
\* message it raises on the rejected input.
Leaves ==
  {[p |-> P_number, bad |-> Str("x"), good |-> Num(1), base |-> "Value x is not a number"],
   [p |-> P_string, bad |-> Num(7), good |-> Str("s"), base |-> "Value 7 is not a string"]}

\* One structural descent: into a property of an object or an element of an array.
Descents ==
  {[d |-> "prop", key |-> "a"], [d |-> "prop", key |-> "b"],
   [d |-> "index", i |-> 0], [d |-> "index", i |-> 1]}
Paths == SeqsUpTo(Descents, MaxDepth)

RECURSIVE NestParser(_, _)
\* The leaf parser wrapped in object(...) and array(...) along the path, the
\* outermost descent first.  An object declares a property before and one
\* after the property of the path.
NestParser(path, leaf) ==
  IF path = <<>> THEN leaf.p
  ELSE IF Head(path).d = "prop"
  THEN P_object(<<[key |-> "s", parser |-> P_string],
                  [key |-> Head(path).key, parser |-> NestParser(Tail(path), leaf)],
                  [key |-> "z", parser |-> P_number]>>)
  ELSE P_array(NestParser(Tail(path), leaf))

RECURSIVE NestInput(_, _, _)
\* The input that puts v at the end of the path; the elements of an array
\* before the path's index, and the property s, are accepted; the property z
\* is accepted only where the leaf's accepted input is placed.
NestInput(path, leaf, v) ==
  IF path = <<>> THEN v
  ELSE IF Head(path).d = "prop"
  THEN Obj(<<[key |-> "s", val |-> Str("ok")],
             [key |-> Head(path).key, val |-> NestInput(Tail(path), leaf, v)],
             [key |-> "z", val |-> IF v = leaf.good THEN Num(0) ELSE Str("late")]>>)
  ELSE Arr([j \in 1..(Head(path).i + 1) |->
              IF j <= Head(path).i THEN NestInput(Tail(path), leaf, leaf.good)
              ELSE NestInput(Tail(path), leaf, v)])

PathCases ==
  {<<NestParser(path, leaf), NestInput(path, leaf, v)>> :
     path \in Paths, leaf \in Leaves, v \in {Str("x"), Num(7)}}

\* Pipelines of three parsers, nested to the left and to the right.
ComposeBase ==
  {P_string, P_number, P_lift(Fn("parseIntOf")), P_lift(Fn("String")), P_fail(Str("foo"))}
ComposeInputs == {Str("27"), Str("hello"), Num(27), Undefined}
ComposeCases ==
  ({P_compose(P_compose(a, b), c) : a \in ComposeBase, b \in ComposeBase, c \in ComposeBase}
   \cup {P_compose(a, P_compose(b, c)) : a \in ComposeBase, b \in ComposeBase, c \in ComposeBase})
  \X ComposeInputs

Cases ==
  LeafCases \cup AltCases \cup ObjectCases \cup ArrayCases \cup PathCases \cup ComposeCases

CtxFragments == {"foo", "bar"}

NoResult == [done |-> FALSE]

(***************************************************************************)
(* The state machine: a parser and an input are fixed, the caller may push *)
(* fragments onto its context, and the parser is run through runParser or  *)
(* called directly with the caller's context.                              *)
(***************************************************************************)
Init ==
  /\ \E case \in Cases : parser = case[1] /\ input = case[2]
  /\ ctx = newParsingCtx
  /\ result = NoResult

PushToCtx ==
  /\ Len(ctx) < MaxCtx
  /\ \E msg \in CtxFragments : ctx' = pushToCtx(ctx, msg)
  /\ UNCHANGED <<parser, input, result>>

RunParser ==
  /\ result' = [done |-> TRUE, ctx |-> newParsingCtx, out |-> runParser(parser, input)]
  /\ UNCHANGED <<parser, input, ctx>>

CallParser ==
  /\ result' = [done |-> TRUE, ctx |-> ctx, out |-> Apply(parser, input, ctx)]
  /\ UNCHANGED <<parser, input, ctx>>

Next == PushToCtx \/ RunParser \/ CallParser

Spec == Init /\ [][Next]_vars

(***************************************************************************)
(* Claims.                                                                 *)
(***************************************************************************)
Fragment(d) ==
  IF d.d = "prop" THEN "object property " \o d.key
  ELSE "array at index " \o ToString(d.i)

RECURSIVE ExpectedSuffix(_)
\* One " in <fragment>" per descent of the path, the innermost first.
ExpectedSuffix(path) ==
  IF path = <<>> THEN ""
  ELSE ExpectedSuffix(Tail(path)) \o " in " \o Fragment(Head(path))

\* C1: when runParser fails at a leaf reached through nested object(...) and
\* array(...) parsers, the message is the leaf's base message followed by one
\* " in <fragment>" per descent taken to reach the leaf, innermost first and
\* outermost last, with no fragment of a sibling parsed before it.
C1_ErrorPath ==
  (result.done /\ result.ctx = newParsingCtx) =>
    \A path \in Paths, leaf \in Leaves :
      (parser = NestParser(path, leaf) /\ input = NestInput(path, leaf, leaf.bad)) =>
        /\ ~result.out.ok
        /\ result.out.err.message = leaf.base \o ExpectedSuffix(path)

\* A failure at a leaf below an object property inside an array element.
C1_Witness ==
  /\ result.done /\ result.ctx = newParsingCtx
  /\ \E leaf \in Leaves :
       LET path == <<[d |-> "index", i |-> 1], [d |-> "prop", key |-> "b"]>>
       IN  /\ parser = NestParser(path, leaf)
           /\ input = NestInput(path, leaf, leaf.bad)
           /\ ~result.out.ok

\* The alternatives of an alt parser that accept the input under the context
\* of the call.
AltSucceeding ==
  {i \in 1..Len(parser.parsers) : Apply(parser.parsers[i], input, result.ctx).ok}

\* C2: if some alternative of alt(p1..pn) succeeds on (v, ctx), alt returns the
\* result of the lowest-index one that succeeds, every parser it invokes gets
\* the original v and ctx, and no parser after the first successful one is
\* invoked.
C2_AltFirstSuccess ==
  (result.done /\ parser.kind = "alt" /\ AltSucceeding # {}) =>
    LET k == CHOOSE i \in AltSucceeding : \A j \in AltSucceeding : i <= j
    IN  /\ result.out.ok
        /\ result.out.val = Apply(parser.parsers[k], input, result.ctx).val
        /\ result.out.calls = [j \in 1..k |-> Call(parser.parsers[j], input, result.ctx)]

\* alt(string, number) on 27 under a pushed context: the second alternative wins.
C2_Witness ==
  /\ result.done /\ result.ctx # newParsingCtx
  /\ parser = P_alt(<<P_string, P_number>>) /\ input = Num(27)
  /\ result.out.ok /\ result.out.val = Num(27)

\* C3: when every parser given to alt fails, alt fails with exactly the error
\* of the last parser in the list; given no parsers it fails with "Unexpected
\* data" annotated with the current context.
C3_AltFailure ==
  (result.done /\ parser.kind = "alt" /\ AltSucceeding = {}) =>
    LET n == Len(parser.parsers)
    IN  /\ ~result.out.ok
        /\ n > 0 => result.out.err = Apply(parser.parsers[n], input, result.ctx).err
        /\ n = 0 => result.out.err = error(Str("Unexpected data"), result.ctx)
        /\ (n = 0 /\ result.ctx = newParsingCtx) =>
             result.out.err.message = "Unexpected data"

\* alt(string, number) on true fails with number's error.
C3_Witness ==
  /\ result.done
  /\ parser = P_alt(<<P_string, P_number>>) /\ input = Bool(TRUE)
  /\ ~result.out.ok
  /\ result.out.err.message = "Value true is not a number"

\* The value a field parser of object(props) is given for the property key.
FieldArg(key) ==
  IF \E i \in 1..Len(input.fields) : input.fields[i].key = key
  THEN (CHOOSE f \in {input.fields[i] : i \in 1..Len(input.fields)} : f.key = key).val
  ELSE Undefined

\* The outcome of the i-th declared field parser of object(props).
FieldOutcome(i) ==
  Apply(parser.props[i].parser, FieldArg(parser.props[i].key),
        <<"object property " \o parser.props[i].key>> \o result.ctx)

\* C4: for object(props) on a non-null, non-array object on which all field
\* parsers succeed, each declared field parser is invoked on the input's own
\* property value, or on undefined when the input has no such property; the
\* output's keys are exactly the declared names whose parser returned a value
\* other than undefined, each mapped to that value; undeclared properties of
\* the input never appear.
C4_ObjectOutput ==
  (/\ result.done /\ parser.kind = "object"
   /\ input.t = "object"
   /\ \A i \in 1..Len(parser.props) : FieldOutcome(i).ok) =>
    LET n == Len(parser.props)
        out == result.out
        outKeys == {out.val.fields[j].key : j \in 1..Len(out.val.fields)}
        declared == {parser.props[i].key : i \in 1..n}
    IN  /\ out.ok /\ out.val.t = "object"
        /\ Len(out.calls) = n
        /\ \A i \in 1..n :
             /\ out.calls[i].callee = parser.props[i].parser
             /\ out.calls[i].v = FieldArg(parser.props[i].key)
        /\ outKeys = {parser.props[i].key : i \in {j \in 1..n : FieldOutcome(j).val # Undefined}}
        /\ Cardinality(outKeys) = Len(out.val.fields)
        /\ \A i \in 1..n :
             FieldOutcome(i).val # Undefined =>
               \E j \in 1..Len(out.val.fields) :
                 out.val.fields[j] = [key |-> parser.props[i].key, val |-> FieldOutcome(i).val]
        /\ \A j \in 1..Len(input.fields) :
             input.fields[j].key \notin declared => input.fields[j].key \notin outKeys

\* object({a: string, b: optional(number)}) on {a: "hi", x: "extra"} yields {a: "hi"}.
C4_Witness ==
  /\ result.done
  /\ parser = P_object(<<[key |-> "a", parser |-> P_string],
                         [key |-> "b", parser |-> P_optional(P_number)]>>)
  /\ input = Obj(<<[key |-> "a", val |-> Str("hi")], [key |-> "x", val |-> Str("extra")]>>)
  /\ result.out.ok
  /\ result.out.val = Obj(<<[key |-> "a", val |-> Str("hi")]>>)

\* s contains sub as a substring.
Contains(s, sub) ==
  \E i \in 1..(Len(s) - Len(sub) + 1) : SubSeq(s, i, i + Len(sub) - 1) = sub

\* The outcome of the item parser of array(item) on the element of
\* zero-based index i.
ItemOutcome(i) ==
  Apply(parser.item, input.items[i + 1],
        <<"array at index " \o ToString(i)>> \o result.ctx)

\* C5: array(item) on an array whose elements item all accepts yields a new
\* sequence of the same length whose i-th entry is item(v[i]) under the
\* context extended with "array at index <i>" (zero-based); otherwise it
\* fails with the error of the lowest-index failing element, whose message
\* contains "array at index <i>", no later element is parsed and no partial
\* result is returned.
C5_ArrayResult ==
  (result.done /\ parser.kind = "array" /\ input.t = "array") =>
    LET n == Len(input.items)
        out == result.out
        failing == {i \in 0..(n - 1) : ~ItemOutcome(i).ok}
    IN  IF failing = {}
        THEN /\ out.ok /\ out.val.t = "array"
             /\ Len(out.val.items) = n
             /\ \A i \in 0..(n - 1) : out.val.items[i + 1] = ItemOutcome(i).val
        ELSE LET k == CHOOSE i \in failing : \A j \in failing : i <= j
             IN  /\ ~out.ok
                 /\ "val" \notin DOMAIN out
                 /\ out.err = ItemOutcome(k).err
                 /\ Contains(out.err.message, "array at index " \o ToString(k))
                 /\ Len(out.calls) = k + 1
                 /\ \A i \in 0..k : out.calls[i + 1].v = input.items[i + 1]

\* array(number) on [1, "x"] fails at index 1.
C5_Witness ==
  /\ result.done
  /\ parser = P_array(P_number) /\ input = Arr(<<Num(1), Str("x")>>)
  /\ ~result.out.ok
  /\ result.out.err.message = "Value x is not a number in array at index 1"

\* The string s is no calendar date-time, or is an instant not strictly
\* after 1899-12-30T00:00:00.000Z.
NotADateTime(s) ==
  \/ ~moment(s).valid
  \/ moment(s).inst <= moment("1899-12-30T00:00:00.000Z").inst

\* C6: for every string that cannot be parsed as a date-time, or that parses
\* to an instant not strictly after 1899-12-30T00:00:00.000Z, dateTime fails
\* with "Value <repr> is not a date and time"; it never returns normally for
\* such an input.
C6_DateTimeRejects ==
  (/\ result.done /\ result.ctx = newParsingCtx /\ parser = P_dateTime
   /\ input.t = "string" /\ NotADateTime(input.s)) =>
    /\ ~result.out.ok
    /\ result.out.err.message = "Value " \o input.s \o " is not a date and time"

\* C7: fail(msgOrFn) fails on every input; given a string the message is that
\* string plus the context suffixes, given a function the message is the
\* string the function returns for the input value.
C7_FailMessage ==
  (result.done /\ parser.kind = "fail") =>
    /\ ~result.out.ok
    /\ result.out.err.message =
         (IF parser.msg.t = "function" THEN CallClosure(parser.msg, input).s
          ELSE parser.msg.s) \o InSuffix(result.ctx, 1)

\* C8 as stated: url returns v unchanged iff v is a string from which a URL
\* can be constructed, and fails with "Invalid URL "<input>"" for every other
\* input, non-strings included.
C8_UrlAsStated ==
  (result.done /\ result.ctx = newParsingCtx /\ parser = P_url) =>
    IF input.t = "string" /\ URLConstructs(input.s)
    THEN result.out.ok /\ result.out.val = input
    ELSE /\ ~result.out.ok
         /\ result.out.err.message = "Invalid URL \"" \o JSString(input) \o "\""

\* C8, amended: url returns v unchanged iff v is a string from which a URL
\* can be constructed; for a string from which none can be constructed it
\* fails with "Invalid URL "<input>"", and for a non-string input it fails
\* with the message of string, "Value <repr> is not a string".
C8_UrlAmended ==
  (result.done /\ result.ctx = newParsingCtx /\ parser = P_url) =>
    IF input.t = "string" /\ URLConstructs(input.s)
    THEN result.out.ok /\ result.out.val = input
    ELSE /\ ~result.out.ok
         /\ result.out.err.message =
              IF input.t = "string" THEN "Invalid URL \"" \o input.s \o "\""
              ELSE "Value " \o JSString(input) \o " is not a string"

\* url on the number 27 fails with string's message.
C8_Witness ==
  /\ result.done /\ result.ctx = newParsingCtx /\ parser = P_url
  /\ input = Num(27)
  /\ ~result.out.ok
  /\ result.out.err.message = "Value 27 is not a string"

\* C9: withDefault(p, def) invokes p on v with the same context; a failure of
\* p propagates unchanged; if p returns undefined or null the result is def
\* for a plain value and def() for a supplier, which is invoked only in this
\* case; otherwise the result is p's result.  withDefault raises no error of
\* its own.
C9_WithDefault ==
  (result.done /\ parser.kind = "withDefault") =>
    LET r == Apply(parser.parser, input, result.ctx)
        out == result.out
        supplied == \E i \in 1..Len(out.calls) : out.calls[i] = CallFn(parser.def)
    IN  /\ Len(out.calls) >= 1
        /\ out.calls[1] = Call(parser.parser, input, result.ctx)
        /\ ~r.ok => (~out.ok /\ out.err = r.err /\ ~supplied)
        /\ ~out.ok => ~r.ok
        /\ (r.ok /\ r.val \in {Undefined, Null}) =>
             /\ out.ok
             /\ parser.def.t # "function" => (out.val = parser.def /\ ~supplied)
             /\ parser.def = Fn("seven") => (out.val = Num(7) /\ supplied)
        /\ (r.ok /\ r.val \notin {Undefined, Null}) =>
             (out.ok /\ out.val = r.val /\ ~supplied)

\* withDefault(nullable(string), "none") on null yields "none".
C9_Witness ==
  /\ result.done
  /\ parser = P_withDefault(P_nullable(P_string), Str("none"))
  /\ input = Null
  /\ result.out.ok /\ result.out.val = Str("none")

\* The declared properties of object(props) whose parser is
\* withDefault(boolean, false) and which the input record lacks.
DefaultedMissing ==
  {i \in 1..Len(parser.props) :
     /\ parser.props[i].parser = P_withDefault(P_boolean, Bool(FALSE))
     /\ ~\E j \in 1..Len(input.fields) : input.fields[j].key = parser.props[i].key}

\* C10: as an object field parser, withDefault(boolean, false) yields the
\* default for a property missing from the input: the object parse succeeds
\* and the output has that property equal to false, as in
\* object({a: string, b: withDefault(boolean, false)}) on {a: "hello"}.
C10_DefaultForMissingField ==
  (/\ result.done /\ parser.kind = "object" /\ input.t = "object"
   /\ DefaultedMissing # {}
   /\ \A i \in (1..Len(parser.props)) \ DefaultedMissing : FieldOutcome(i).ok) =>
    /\ result.out.ok
    /\ \A i \in DefaultedMissing :
         \E j \in 1..Len(result.out.val.fields) :
           result.out.val.fields[j] = [key |-> parser.props[i].key, val |-> Bool(FALSE)]

\* The type name of a primitive parser.
PrimitiveType(p) ==
  CASE p = P_string -> "string"
    [] p = P_number -> "number"
    [] p = P_boolean -> "boolean"

\* C11: for each primitive parser P of string, number and boolean and every
\* input v, runParser(P, v) returns v unchanged if v's runtime type is P's
\* type, and otherwise fails with "Value <repr of v> is not a <type>"; null,
\* undefined, arrays and objects are rejected by all three.
C11_Primitives ==
  (/\ result.done /\ result.ctx = newParsingCtx
   /\ parser \in {P_string, P_number, P_boolean}) =>
    /\ IF input.t = PrimitiveType(parser)
       THEN result.out.ok /\ result.out.val = input
       ELSE /\ ~result.out.ok
            /\ result.out.err.message =
                 "Value " \o JSString(input) \o " is not a " \o PrimitiveType(parser)
    /\ input.t \in {"null", "undefined", "array", "object"} => ~result.out.ok

\* boolean rejects null.
C11_Witness ==
  /\ result.done /\ result.ctx = newParsingCtx
  /\ parser = P_boolean /\ input = Null
  /\ ~result.out.ok
  /\ result.out.err.message = "Value null is not a boolean"

RECURSIVE StageCalls(_)
\* The calls of parsers other than compose that a list of calls leads to, in
\* order: a call of a compose parser is replaced by the calls it makes.
StageCalls(calls) ==
  IF calls = <<>> THEN <<>>
  ELSE (IF Head(calls).callee.kind = "compose"
        THEN StageCalls(Apply(Head(calls).callee, Head(calls).v, Head(calls).ctx).calls)
        ELSE <<Head(calls)>>)
       \o StageCalls(Tail(calls))

\* The outcomes agree: both return the same value or both fail with the same
\* error.
SameOutcome(x, y) ==
  /\ x.ok = y.ok
  /\ x.ok => x.val = y.val
  /\ ~x.ok => x.err = y.err

\* C12: compose is associative: compose(compose(a,b),c) and
\* compose(a,compose(b,c)) on the same input and context both return the same
\* value or both fail with the same error; each of a, b, c is invoked at most
\* once, in the order a, b, c, with the same context, and no parser after a
\* failing one is invoked.
C12_ComposeAssociative ==
  (/\ result.done /\ parser.kind = "compose"
   /\ parser.a.kind = "compose" /\ parser.b.kind # "compose"
   /\ parser.a.a.kind # "compose" /\ parser.a.b.kind # "compose") =>
    LET a == parser.a.a
        b == parser.a.b
        c == parser.b
        c0 == result.ctx
        right == Apply(P_compose(a, P_compose(b, c)), input, c0)
        ra == Apply(a, input, c0)
        rb == Apply(b, ra.val, c0)
        expected ==
          <<Call(a, input, c0)>>
          \o (IF ra.ok
              THEN <<Call(b, ra.val, c0)>>
                   \o (IF rb.ok THEN <<Call(c, rb.val, c0)>> ELSE <<>>)
              ELSE <<>>)
    IN  /\ SameOutcome(result.out, right)
        /\ StageCalls(result.out.calls) = expected
        /\ StageCalls(right.calls) = expected

\* compose(compose(string, lift(parseInt)), lift(String)) on "27" under a
\* pushed context runs all three stages and yields "27".
C12_Witness ==
  /\ result.done /\ result.ctx # newParsingCtx
  /\ parser = P_compose(P_compose(P_string, P_lift(Fn("parseIntOf"))), P_lift(Fn("String")))
  /\ input = Str("27")
  /\ result.out.ok /\ result.out.val = Str("27")
  /\ Len(StageCalls(result.out.calls)) = 3

====
